---- MODULE Spec2Model ----
(***************************************************************************)
(* Model of the monthly random-convolutional-feature pipeline of           *)
(* rcf_multiband.ipynb: spatial partitioning of the points, per-partition  *)
(* scene matching against the STAC catalog, patch extraction by the        *)
(* DataLoader workers, featurization with the fixed RCF model, and the     *)
(* year/month loop that assembles, saves and releases one table a month.   *)
(*                                                                         *)
(* Points are identified by their label in the input frame (1..pt_len);    *)
(* lon(p) and lat(p) give the coordinates of point p.  Feature values are  *)
(* kept as exact integers: a normalised pixel is its numerator over the    *)
(* patch's (max - min), and a pooled feature is the sum over the output    *)
(* positions of the rectified response, scaled by (max - min).             *)
(***************************************************************************)
EXTENDS Integers, Sequences, FiniteSets, TLC

VARIABLES
    num_features,   \* configured feature count
    year_end,       \* last year of the configured range
    start_month,    \* first month of the first year
    pt_len,         \* number of input points (gdf.shape[0])
    NPARTITIONS,    \* configured number of partitions
    batch_size,     \* configured DataLoader batch size
    hd,             \* hd[p]: Hilbert distance of point p
    model,          \* the RCF model: None before construction, else [weight, bias]
    bound,          \* the period-scoped names bound in the notebook's namespace
    dgdf,           \* the partitioned, hd-sorted frame: a sequence of partitions
    pc,             \* position of the notebook's control flow
    yr, mn,         \* loop variables of the period loop
    parts,          \* parts[k]: the rows of partition k, <<>> while it is not computed
    nqueries,       \* nqueries[k]: catalog searches issued for partition k this period
    failed,         \* partitions whose search raised this period
    df3,            \* matched rows after dropna/reset_index
    matching_items, \* signed scene of every row of df3
    points,         \* df3[["lon","lat"]]: the period's point list
    fetched,        \* fetched[b]: what the worker of batch b has produced so far
    nbatch,         \* batches the main loop has taken from the dataloader
    images,         \* the batch the main loop is iterating
    i,              \* row counter of the featurize loop
    x_all,          \* the period's feature matrix
    features_monthly, \* the period's table
    files,          \* names of the feather files written, in order
    saved,          \* the table handed to the last to_feather call
    visited,        \* periods entered by the loop, in order
    df2,            \* the frame compute() returned
    ic,             \* a search result handed to query on its own (SpecQuery)
    model_calls,    \* the calls of model(image) made in this period, in order
    generator,      \* state of torch's default random number generator
    env,            \* what stays the same when a run is repeated (SpecRerun)
    previous        \* the results of the first run, once the run is repeated (SpecRerun)

vars == <<num_features, year_end, start_month, pt_len, NPARTITIONS, batch_size, hd, model, bound, dgdf, pc, yr, mn,
          parts, nqueries, failed, df3, matching_items, points, fetched, nbatch, images, i,
          x_all, features_monthly, files, saved, visited, df2, ic, model_calls, generator, env, previous>>

(* Python's None, and an exception in place of a value, as records so that  *)
(* they compare with the records that stand for items and tensors            *)
config == <<num_features, year_end, start_month, pt_len, NPARTITIONS, batch_size, hd>>

None == [none |-> TRUE]

Raised(e) == [raises |-> e]

(* The float nan among feature values: pooled rectified responses are never *)
(* negative, so a negative number is free to stand for it                     *)
NaN == 0 - 1

----------------------------------------------------------------------------
(* Bounds of the model *)
MaxPoints == 2
MaxYears == 2

(* Program constants *)
year_start == 2012
min_image_edge == 6
kernel_size == 3
cloud_limit == 20
seed == 42

(* Input domains *)
GeneratorStates == {[seed |-> 0, offset |-> 0], [seed |-> seed, offset |-> 5]}
StartMonths == {11, 12}
FeatureCounts == {2, 3, 4}
HdValues == {0, 1}
PartitionCounts == {1, 2}
BatchSizes == {1, 2}
CloudCovers == {5, 10}
SceneIds == {1, 2}

----------------------------------------------------------------------------
(* Generic helpers *)
Range(s) == {s[k] : k \in DOMAIN s}

Min(S) == CHOOSE x \in S : \A y \in S : x <= y

Max(S) == CHOOSE x \in S : \A y \in S : y <= x

RECURSIVE SumTo(_, _)
SumTo(f, n) == IF n = 0 THEN 0 ELSE f[n] + SumTo(f, n - 1)

RECURSIVE Concat(_)
Concat(ss) == IF ss = <<>> THEN <<>> ELSE Head(ss) \o Concat(Tail(ss))

(* np.empty in place of np.zeros: whatever the memory held *)
Zeros_uninitialised(n) == [j \in 1..n |-> Len(files)]

Zeros(n) == [j \in 1..n |-> 0]

(* Input data: the coordinates of point p *)
lon(p) == 27 + p

lat(p) == p - 15

----------------------------------------------------------------------------
(* Text formatting used for the file name *)
Digit(d) == CASE d = 0 -> "0" [] d = 1 -> "1" [] d = 2 -> "2" [] d = 3 -> "3"
              [] d = 4 -> "4" [] d = 5 -> "5" [] d = 6 -> "6" [] d = 7 -> "7"
              [] d = 8 -> "8" [] d = 9 -> "9"

RECURSIVE str(_)
str(n) == IF n < 10 THEN <<Digit(n)>> ELSE str(n \div 10) \o <<Digit(n % 10)>>

(* f"{n/1000:.0f}": n/1000 rounded to an integer, halves to even *)
RoundThousands(n) ==
    LET q == n \div 1000
        r == n % 1000
    IN  IF r > 500 \/ (r = 500 /\ q % 2 = 1) THEN q + 1 ELSE q

(* the name of the yearly file of the commented-out code *)
file_name_noMonth(y, m) ==
    <<"data/", "landsat-c2-l2", "_bands-", "r-g-b-nir-swir16-swir22", "_", "ZMB", "_">>
    \o str(RoundThousands(pt_len)) \o <<"k-points_">> \o str(num_features)
    \o <<"-features_">> \o str(y) \o <<".feather">>

file_name(y, m) ==
    <<"data/", "landsat-c2-l2", "_bands-", "r-g-b-nir-swir16-swir22", "_", "ZMB", "_">>
    \o str(RoundThousands(pt_len)) \o <<"k-points_">> \o str(num_features)
    \o <<"-features_">> \o str(y) \o <<"_">> \o str(m) \o <<".feather">>

----------------------------------------------------------------------------
(* Spatial partitioning *)

(* sort_values: the orders of s that are ascending in key (key[e] is the    *)
(* sort column of row e); pandas' default sort kind gives no guarantee on    *)
(* the order of equal keys.                                                   *)
sort_values(s, key) ==
    LET n == Len(s)
        Perms == {f \in [1..n -> 1..n] : \A a, b \in 1..n : a # b => f[a] # f[b]}
    IN  {[k \in 1..n |-> s[f[k]]] : f \in
            {g \in Perms : \A a, b \in 1..n : a < b => key[s[g[a]]] <= key[s[g[b]]]}}

(* The input frame, in file order *)
gdf == [p \in 1..pt_len |-> p]

(* ddf.hilbert_distance().compute(): the "hd" column *)
hilbert_distance == [p \in 1..pt_len |-> hd[p]]

CeilDiv(a, b) == (a + b - 1) \div b

from_geopandas_perPoint(frame, npartitions) == [k \in 1..Len(frame) |-> <<frame[k]>>]

(* chunks whose last row is also the first row of the next chunk *)
from_geopandas_inclusiveEnd(frame, npartitions) ==
    LET n == Len(frame)
        chunksize == CeilDiv(n, npartitions)
        nchunks == CeilDiv(n, chunksize)
    IN  [k \in 1..nchunks |->
            SubSeq(frame, (k - 1) * chunksize + 1,
                   IF k * chunksize + 1 < n THEN k * chunksize + 1 ELSE n)]

(* dask's from_pandas with sort=False: contiguous chunks of ceil(n/npartitions) rows *)
from_geopandas(frame, npartitions) ==
    LET n == Len(frame)
        chunksize == CeilDiv(n, npartitions)
        nchunks == CeilDiv(n, chunksize)
    IN  [k \in 1..nchunks |->
            SubSeq(frame, (k - 1) * chunksize + 1,
                   IF k * chunksize < n THEN k * chunksize ELSE n)]

----------------------------------------------------------------------------
(* Scene matching *)

(* A catalog item: its id, its eo:cloud_cover, and its footprint, given as  *)
(* the set of points the footprint covers.                                    *)
Items(pts) == [id : SceneIds, cc : CloudCovers, geometry : SUBSET Range(pts)]

(* What catalog.search(...).get_all_items_as_dict()["features"] can hold for *)
(* the hull of pts: any list of items with distinct ids, every one below the *)
(* cloud limit.                                                               *)
Responses(pts) ==
    UNION {{r \in [1..n -> Items(pts)] :
                /\ \A a, b \in 1..n : a # b => r[a].id # r[b].id
                /\ \A a \in 1..n : r[a].cc < cloud_limit} : n \in 0..Cardinality(SceneIds)}

(* the "eo:cloud_cover" column of the items frame *)
cloud_cover(features) == [it \in Range(features) |-> it.cc]

covers(item, p) == p \in item.geometry

(* features_d[covered_by.index[0]]: the item registered under the id that    *)
(* heads the covering rows                                                    *)
features_d(features, id) == features[CHOOSE k \in DOMAIN features : features[k].id = id]

first_item_unsorted(features, items, p) ==
    LET covered_by == SelectSeq(features, LAMBDA it : covers(it, p))
    IN  IF Len(covered_by) > 0 THEN [id |-> features_d(features, covered_by[1].id).id]
        ELSE None

(* The body of the loop over point_list: the scene recorded for point p *)
first_item(features, items, p) ==
    LET covered_by == SelectSeq(items, LAMBDA it : covers(it, p))
    IN  IF Len(covered_by) > 0 THEN [id |-> features_d(features, covered_by[1].id).id]
        ELSE None

(* query(points): features is the search result, items one ascending order  *)
(* of it by cloud cover; the result is points.assign(stac_item=point_items).  *)
query(pts, features, items) ==
    [k \in 1..Len(pts) |-> [pt |-> pts[k], stac_item |-> first_item(features, items, pts[k])]]

----------------------------------------------------------------------------
(* The RCF model *)

manual_seed_notApplied(s) == generator

(* torch.manual_seed(s): the default generator restarts from seed s *)
manual_seed(s) == [seed |-> s, offset |-> 0]

(* The k-th number a generator seeded with s gives to nn.init.normal_: a    *)
(* fixed function of the seed and of the position of the draw                *)
normal_(s, k) == ((s * 7 + k * k * 5 + k * 3) % 7) - 3

channels == 1

KernelTaps == channels * kernel_size * kernel_size

(* The numbers nn.Conv2d draws for its default weights and biases before    *)
(* nn.init overwrites them                                                    *)
Conv2d_draws(nf) == (nf \div 2) * KernelTaps + (nf \div 2)

(* The numbers the construction of an RCF takes from the generator *)
RCF_draws(nf) == Conv2d_draws(nf) + (nf \div 2) * KernelTaps

(* RCF.__init__ with the generator in state g: num_features \div 2 filters  *)
(* with weights drawn after those of the default initialisation, bias -1     *)
RCF(nf, g) ==
    [weight |-> [c \in 1..(nf \div 2) |->
                    [t \in 1..KernelTaps |->
                        normal_(g.seed, g.offset + Conv2d_draws(nf) + (c - 1) * KernelTaps + t)]],
     bias |-> -1]

relu(v) == IF v > 0 THEN v ELSE 0

(* The raw pixel of band b at row y, column x of a patch: equal everywhere,  *)
(* a gradient, or the values the patch is given with                          *)
raw(img, b, y, x) ==
    IF img.px = "flat" THEN 7
    ELSE IF img.px = "ramp" THEN (b + x + 2 * y) % 5
    ELSE img.data[b][y][x]

(* The number of bands of a patch: shape[1] of data.data *)
bands(img) == IF img.px = "given" THEN Len(img.data) ELSE channels

PixelIndex(img) == {<<b, y, x>> : b \in 1..bands(img), y \in 1..img.h, x \in 1..img.w}

(* every band shifted by its own minimum *)
normalize_perBand(img) ==
    LET vals == {raw(img, q[1], q[2], q[3]) : q \in PixelIndex(img)}
        lo == [b \in 1..bands(img) |->
                 Min({raw(img, q[1], q[2], q[3]) : q \in {r \in PixelIndex(img) : r[1] = b}})]
        d == Max(vals) - Min(vals)
    IN  [h |-> img.h, w |-> img.w, d |-> d,
         num |-> [b \in 1..bands(img) |-> [y \in 1..img.h |-> [x \in 1..img.w |->
                    raw(img, b, y, x) - lo[b]]]]]

(* out_image after the min-max normalisation: the numerators over           *)
(* d = max - min; a patch with max = min divides 0 by 0 and holds NaN.        *)
normalize(img) ==
    LET vals == {raw(img, q[1], q[2], q[3]) : q \in PixelIndex(img)}
        lo == Min(vals)
        d == Max(vals) - lo
    IN  [h |-> img.h, w |-> img.w, d |-> d,
         num |-> [b \in 1..bands(img) |-> [y \in 1..img.h |-> [x \in 1..img.w |->
                    raw(img, b, y, x) - lo]]]]

(* conv1 at output position (y, x) for filter c, scaled by d *)
conv1(m, image, c, y, x) ==
    LET tap == [t \in 1..KernelTaps |->
                  LET b == ((t - 1) \div (kernel_size * kernel_size)) + 1
                      r == (t - 1) % (kernel_size * kernel_size)
                      dy == r \div kernel_size
                      dx == r % kernel_size
                  IN  m.weight[c][t] * image.num[b][y + dy][x + dx]]
    IN  SumTo(tap, KernelTaps) + m.bias * image.d

(* adaptive_avg_pool2d of relu(sign * conv1): the sum over the output       *)
(* positions (the average times their number)                                *)
pool(m, image, c, sign) ==
    LET oh == image.h - kernel_size + 1
        ow == image.w - kernel_size + 1
        cell == [k \in 1..(oh * ow) |->
                    relu(sign * conv1(m, image, c, ((k - 1) \div ow) + 1, ((k - 1) % ow) + 1))]
    IN  SumTo(cell, oh * ow)

(* The number of dimensions left by squeeze() on the pooled tensor of shape *)
(* (1, half, 1, 1): every dimension of size one goes                          *)
squeeze_ndim(half) == IF half = 1 THEN 0 ELSE 1

(* RCF.forward on one image: cat((x1a, x1b), dim=0) when the squeezed       *)
(* branches have one dimension; with no dimension left neither branch of the *)
(* if/elif is taken and the method returns None                               *)
forward(m, image) ==
    LET half == Len(m.weight)
        x1a == [c \in 1..half |-> IF image.d = 0 THEN NaN ELSE pool(m, image, c, 1)]
        x1b == [c \in 1..half |-> IF image.d = 0 THEN NaN ELSE pool(m, image, c, -1)]
    IN  IF squeeze_ndim(half) = 1 THEN [data |-> x1a \o x1b] ELSE None

----------------------------------------------------------------------------
(* Patch extraction *)

(* What the clipped stack of a scene around a point can be: a full window,  *)
(* a window cut by the scene edge, an empty window, a window of equal values *)
Patches ==
    {[h |-> min_image_edge, w |-> min_image_edge, px |-> "ramp"],
     [h |-> min_image_edge, w |-> min_image_edge, px |-> "flat"],
     [h |-> min_image_edge, w |-> min_image_edge - 1, px |-> "ramp"],
     [h |-> 0, w |-> min_image_edge, px |-> "ramp"]}

(* Small patches given pixel by pixel, as <<bands, height, width>> and the   *)
(* values a pixel takes                                                       *)
GivenShapes == {<<2, 1, 1>>, <<2, 1, 2>>}

PixelValues == {0, 1, 2}

GivenPatches ==
    UNION {{[h |-> sh[2], w |-> sh[3], px |-> "given", data |-> dt] :
               dt \in [1..sh[1] -> [1..sh[2] -> [1..sh[3] -> PixelValues]]]} : sh \in GivenShapes}

(* normalize and forward, tabulated once over the patches and the models   *)
(* that can occur                                                             *)
NormalizeTable == [o \in {q \in Patches : q.h > 0 /\ q.w > 0} |-> normalize(o)]

ForwardTable ==
    [q \in {<<RCF(nf, manual_seed(seed)), NormalizeTable[o]>> :
               nf \in {n \in FeatureCounts : n % 2 = 0}, o \in DOMAIN NormalizeTable}
        |-> forward(q[1], q[2])]

(* a model constructed anew, from the generator as it is, for the call *)
model_call_redrawn(m, image) == forward(RCF(2 * Len(m.weight), generator), image)

(* model(image) *)
model_call(m, image) ==
    IF <<m, image>> \in DOMAIN ForwardTable THEN ForwardTable[<<m, image>>]
    ELSE forward(m, image)

(* How the body of the try block can end: it yields a clipped patch, or     *)
(* stack/Proj/compute raise before out_image is bound                         *)
StackOutcomes == Patches \cup {Raised("ValueError"), Raised("RuntimeError")}

IsError(r) == r \in {Raised("UnboundLocalError"), Raised("RuntimeError")}

(* CustomDataset.__getitem__(idx) when the try block ends with outcome o:   *)
(* the tensor returned, or the exception that leaves the method               *)
getitem(fn, o) ==
    IF fn = None THEN None
    ELSE IF o = Raised("ValueError") THEN Raised("UnboundLocalError")
    ELSE IF o = Raised("RuntimeError") THEN Raised("RuntimeError")
    ELSE IF o.h = 0 \/ o.w = 0
         THEN [h |-> o.h, w |-> o.w, d |-> 1, num |-> <<>>]
         ELSE IF o \in DOMAIN NormalizeTable THEN NormalizeTable[o]
         ELSE normalize(o)

(* The DataLoader's batches over a dataset of n entries *)
NumBatches(n) == CeilDiv(n, batch_size)

BatchIndices(b, n) ==
    [k \in 1..(IF b * batch_size <= n THEN batch_size ELSE n - (b - 1) * batch_size)
        |-> (b - 1) * batch_size + k]

----------------------------------------------------------------------------
(* The period loop *)

month_range_start_everyYear(y) == start_month

(* The first month of month_range *)
month_range_start(y) == IF y = year_start THEN start_month ELSE 1

HasNext(y, m) == m < 12 \/ y < year_end

NextYr(y, m) == IF m < 12 THEN y ELSE y + 1

NextMn(y, m) == IF m < 12 THEN m + 1 ELSE month_range_start(y + 1)

----------------------------------------------------------------------------
(* State of a kernel in which the notebook is about to run, with the values *)
(* its configuration cells will set; the generator is as the kernel has it:  *)
(* fresh, or left by earlier work                                             *)
Init ==
    /\ num_features \in FeatureCounts
    /\ year_end \in year_start..(year_start + MaxYears - 1)
    /\ start_month \in StartMonths
    /\ pt_len \in 1..MaxPoints
    /\ pt_len > 1 => (year_end = year_start /\ start_month = 12)
    /\ hd \in [1..pt_len -> HdValues]
    /\ NPARTITIONS \in PartitionCounts
    /\ batch_size \in BatchSizes
    /\ pt_len = 1 => (NPARTITIONS = 1 /\ batch_size = 1)
    /\ num_features = 2 => (pt_len = 1 /\ year_end = year_start)
    /\ model = None
    /\ dgdf = <<>>
    /\ pc = "start"
    /\ yr = 0
    /\ mn = 0
    /\ parts = <<>>
    /\ nqueries = <<>>
    /\ failed = {}
    /\ bound = {}
    /\ df2 = <<>>
    /\ df3 = <<>>
    /\ matching_items = <<>>
    /\ points = <<>>
    /\ fetched = <<>>
    /\ nbatch = 0
    /\ images = <<>>
    /\ i = 0
    /\ x_all = <<>>
    /\ features_monthly = <<>>
    /\ files = <<>>
    /\ saved = None
    /\ visited = <<>>
    /\ ic = None
    /\ model_calls = <<>>
    /\ generator \in GeneratorStates
    /\ env = None
    /\ previous = None

(* The first cell: torch.manual_seed(42) *)
Seed ==
    /\ pc = "start"
    /\ generator' = manual_seed(seed)
    /\ pc' = "init"
    /\ UNCHANGED <<config, failed, bound, model, dgdf, yr, mn, parts,
                   nqueries, df2, df3, matching_items, points, fetched, nbatch, images, i,
                   x_all, features_monthly, files, saved, visited, ic, model_calls, env, previous>>

EvenFeatures_unchecked(nf) == TRUE

(* assert num_features % 2 == 0 *)
EvenFeatures(nf) == nf % 2 = 0

(* model = RCF(num_features).eval().to(device) *)
ModelInit ==
    /\ pc = "init"
    /\ IF EvenFeatures(num_features)
       THEN /\ model' = RCF(num_features, generator)
            /\ generator' = [generator EXCEPT !.offset = @ + RCF_draws(num_features)]
            /\ pc' = "partition"
       ELSE /\ model' = model
            /\ generator' = generator
            /\ pc' = "rejected"
    /\ UNCHANGED <<config, failed, bound, dgdf, yr, mn, parts,
                   nqueries, df2, df3, matching_items, points, fetched, nbatch, images, i,
                   x_all, features_monthly, files, saved, visited, ic, model_calls, env, previous>>

(* gdf.sort_values("hd") and dask_geopandas.from_geopandas(gdf, NPARTITIONS, sort=False), *)
(* sort_values giving the order sorted                                        *)
PartitionAs(sorted) ==
    /\ pc = "partition"
    /\ dgdf' = from_geopandas(sorted, NPARTITIONS)
    /\ pc' = "loop"
    /\ UNCHANGED <<config, failed, bound, model, yr, mn, parts,
                   nqueries, df2, df3, matching_items, points, fetched, nbatch, images, i,
                   x_all, features_monthly, files, saved, visited, ic, model_calls, generator, env, previous>>

Partition == \E sorted \in sort_values(gdf, hilbert_distance) : PartitionAs(sorted)

(* the points sorted and partitioned anew at the head of every iteration *)
EnterPeriod_repartitioned(y, m) ==
    /\ yr' = y
    /\ mn' = m
    /\ visited' = Append(visited, <<y, m>>)
    /\ parts' = [k \in 1..Len(dgdf) |-> <<>>]
    /\ nqueries' = [k \in 1..Len(dgdf) |-> 0]
    /\ failed' = {}
    /\ pc' = "match"
    /\ \E sorted \in sort_values(gdf, hilbert_distance) :
          dgdf' = from_geopandas(sorted, NPARTITIONS)

(* The head of an iteration of "for yr ... for mn in month_range"; nothing  *)
(* in the loop assigns dgdf                                                   *)
EnterPeriod(y, m) ==
    /\ yr' = y
    /\ mn' = m
    /\ visited' = Append(visited, <<y, m>>)
    /\ parts' = [k \in 1..Len(dgdf) |-> <<>>]
    /\ nqueries' = [k \in 1..Len(dgdf) |-> 0]
    /\ failed' = {}
    /\ pc' = "match"
    /\ dgdf' = dgdf

BeginLoop ==
    /\ pc = "loop"
    /\ EnterPeriod(year_start, month_range_start(year_start))
    /\ bound' = bound \cup {"query"}
    /\ UNCHANGED <<config, model, df2, df3,
                   matching_items, points, fetched, nbatch, images, i, x_all,
                   features_monthly, files, saved, ic, model_calls, generator, env, previous>>

(* A dask worker runs query on partition k: one catalog search, which       *)
(* returns features, sorted by cloud cover into items, then the assignment   *)
(* of a scene to every point of the partition                                *)
QueryWith(k, features, items) ==
    /\ pc = "match"
    /\ parts[k] = <<>>
    /\ parts' = [parts EXCEPT ![k] = query(dgdf[k], features, items)]
    /\ nqueries' = [nqueries EXCEPT ![k] = @ + 1]
    /\ UNCHANGED <<config, failed, bound, model, dgdf, pc, yr, mn,
                   df2, df3, matching_items, points, fetched, nbatch, images, i, x_all,
                   features_monthly, files, saved, visited, ic, model_calls, generator, env, previous>>

Query(k) ==
    \E features \in Responses(dgdf[k]) :
        \E items \in sort_values(features, cloud_cover(features)) :
            QueryWith(k, features, items)

null_assignments(pts) == [j \in 1..Len(pts) |-> [pt |-> pts[j], stac_item |-> None]]

search_raises_asNoCandidates(k) ==
    /\ parts' = [parts EXCEPT ![k] = null_assignments(dgdf[k])]
    /\ pc' = pc

(* Nothing in query or around compute() catches: the exception of the       *)
(* search leaves query, and compute() raises it in the notebook              *)
search_raises(k) ==
    /\ parts' = parts
    /\ pc' = "aborted"

(* The search of partition k raises *)
QueryFail(k) ==
    /\ pc = "match"
    /\ parts[k] = <<>>
    /\ nqueries' = [nqueries EXCEPT ![k] = @ + 1]
    /\ failed' = failed \cup {k}
    /\ search_raises(k)
    /\ UNCHANGED <<config, bound, model, dgdf, yr, mn, df2, df3, matching_items, points, fetched, nbatch, images, i,
                   x_all, features_monthly, files, saved, visited, ic, model_calls, generator, env, previous>>

(* the first result that arrives is enough *)
ComputeReady_any == \E k \in DOMAIN parts : parts[k] # <<>>

(* compute() returns once every partition has its result *)
ComputeReady == \A k \in DOMAIN parts : parts[k] # <<>>

dropna_keepAll(frame) == [k \in 1..Len(frame) |-> [frame[k] EXCEPT !.label = k]]

dropna_keepNull(frame) ==
    LET kept == SelectSeq(frame, LAMBDA row : row.stac_item = None)
    IN  [k \in 1..Len(kept) |-> [kept[k] EXCEPT !.label = k]]

(* df2.dropna(subset=["stac_item"]).reset_index(drop=True) *)
dropna(frame) ==
    LET kept == SelectSeq(frame, LAMBDA row : row.stac_item # None)
    IN  [k \in 1..Len(kept) |-> [kept[k] EXCEPT !.label = k]]

(* pc.sign(Item.from_dict(item)) *)
sign(item) == [id |-> item, signed |-> TRUE]

(* A partition's result as rows of the frame *)
Rows(part) ==
    [k \in 1..Len(part) |-> [label |-> part[k].pt, lon |-> lon(part[k].pt),
                             lat |-> lat(part[k].pt), stac_item |-> part[k].stac_item]]

concat_reversed(ps) == Concat([k \in 1..Len(ps) |-> Rows(ps[Len(ps) + 1 - k])])

(* compute() concatenates the partitions' frames in partition order *)
concat(ps) == Concat([k \in 1..Len(ps) |-> Rows(ps[k])])

(* compute() and the cell's code up to the featurize loop: concatenate the  *)
(* partitions, drop the unmatched rows, sign the scenes, build the dataset,   *)
(* the dataloader and the zero matrix                                         *)
Compute ==
    /\ pc = "match"
    /\ ComputeReady
    /\ LET frame == concat(parts)
           kept == dropna(frame)
           n == Len(kept)
       IN  /\ df2' = frame
           /\ df3' = kept
           /\ matching_items' = [k \in 1..n |-> sign(kept[k].stac_item)]
           /\ points' = [k \in 1..n |-> <<kept[k].lon, kept[k].lat>>]
           /\ fetched' = [b \in 1..NumBatches(n) |-> <<>>]
           /\ x_all' = [r \in 1..n |-> Zeros(num_features)]
    /\ bound' = bound \cup {"meta", "df2", "df3", "matching_items", "points",
                              "CustomDataset", "dataset", "dataloader", "x_all"}
    /\ nbatch' = 0
    /\ images' = <<>>
    /\ i' = 0
    /\ model_calls' = <<>>
    /\ pc' = "featurize"
    /\ UNCHANGED <<config, failed, parts, model, dgdf, yr, mn,
                   nqueries, features_monthly, files, saved, visited, ic, generator, env, previous>>

----------------------------------------------------------------------------
(* Extraction and featurization *)

BatchDone(b) ==
    \/ Len(fetched[b]) = Len(BatchIndices(b, Len(points)))
    \/ \E k \in DOMAIN fetched[b] : IsError(fetched[b][k])

(* the indices of the batch taken from the last to the first *)
NextIndex_lastFirst(b) ==
    BatchIndices(b, Len(points))[Len(BatchIndices(b, Len(points))) - Len(fetched[b])]

(* The index a worker of batch b takes next *)
NextIndex(b) == BatchIndices(b, Len(points))[Len(fetched[b]) + 1]

(* A DataLoader worker runs dataset[idx] for the next index of batch b, and *)
(* the try block ends with outcome o                                         *)
ExtractWith(b, o) ==
    /\ pc = "featurize"
    /\ b \in DOMAIN fetched
    /\ b > nbatch
    /\ ~BatchDone(b)
    /\ fetched' = [fetched EXCEPT ![b] = Append(@, getitem(matching_items[NextIndex(b)], o))]
    /\ UNCHANGED <<config, failed, bound, model, dgdf, pc, yr, mn,
                   parts, nqueries, df2, df3, matching_items, points, nbatch, images, i,
                   x_all, features_monthly, files, saved, visited, ic, model_calls, generator, env, previous>>

Extract(b) == \E o \in StackOutcomes : ExtractWith(b, o)

(* The inner loop has gone through the batch the main loop holds *)
BatchConsumed ==
    i = (IF nbatch * batch_size < Len(points) THEN nbatch * batch_size ELSE Len(points))

(* nothing is handed over before every outstanding batch is extracted *)
BatchAvailable_allDone(b) == \A b2 \in DOMAIN fetched : b2 > nbatch => BatchDone(b2)

(* The dataloader hands over a batch once its worker has finished it *)
BatchAvailable(b) == BatchDone(b)

(* "for images in dataloader": the main loop takes the next batch; an       *)
(* exception raised in the worker is raised again here                        *)
NextBatch ==
    /\ pc = "featurize"
    /\ BatchConsumed
    /\ nbatch < Len(fetched)
    /\ BatchAvailable(nbatch + 1)
    /\ IF \E k \in DOMAIN fetched[nbatch + 1] : IsError(fetched[nbatch + 1][k])
       THEN /\ pc' = "aborted"
            /\ UNCHANGED <<fetched, nbatch, images>>
       ELSE /\ images' = fetched[nbatch + 1]
            /\ fetched' = [fetched EXCEPT ![nbatch + 1] = <<>>]
            /\ nbatch' = nbatch + 1
            /\ pc' = pc
    /\ bound' = bound \cup {"images"}
    /\ UNCHANGED <<config, failed, model, dgdf, yr, mn,
                   parts, nqueries, df2, df3, matching_items, points, i, x_all,
                   features_monthly, files, saved, visited, ic, model_calls, generator, env, previous>>

(* The image the inner loop is at *)
CurrentImage == images[i - (nbatch - 1) * batch_size + 1]

LargeEnough_heightOnly(image) == image.h >= min_image_edge

(* image.shape[2] >= min_image_edge and image.shape[3] >= min_image_edge *)
LargeEnough(image) == image.h >= min_image_edge /\ image.w >= min_image_edge

(* the position of the current image in its batch *)
RowIndex_inBatch == i - (nbatch - 1) * batch_size + 1

(* The row the features of the current image are written to *)
RowIndex == i + 1

(* .cpu().numpy() on the tensor the model returned *)
numpy(tensor) == tensor.data

(* The body of "for image in images" when model(image) returns *)
FeaturizeImage ==
    /\ pc = "featurize"
    /\ ~BatchConsumed
    /\ LET image == CurrentImage
       IN  IF image # None /\ LargeEnough(image)
           THEN LET out == model_call(model, image)
                IN  /\ model_calls' = Append(model_calls,
                           [row |-> RowIndex, image |-> image, out |-> out])
                    /\ IF out = None
                       THEN \* None has no cpu(): AttributeError leaves the loop
                            x_all' = x_all /\ i' = i /\ pc' = "aborted"
                       ELSE x_all' = [x_all EXCEPT ![RowIndex] = numpy(out)]
                            /\ i' = i + 1 /\ pc' = pc
           ELSE /\ x_all' = x_all
                /\ model_calls' = model_calls
                /\ i' = i + 1
                /\ pc' = pc
    /\ bound' = bound \cup {"image"}
    /\ UNCHANGED <<config, failed, model, dgdf, yr, mn,
                   parts, nqueries, df2, df3, matching_items, points, fetched, nbatch,
                   images, features_monthly, files, saved, visited, ic, generator, env, previous>>

(* the except clause takes the error: pass, then i += 1 *)
device_raises_caught ==
    /\ pc' = pc
    /\ i' = i + 1

(* The error the device raises is a RuntimeError, which "except ValueError" *)
(* does not take: it leaves the loop and the cell                             *)
device_raises ==
    /\ pc' = "aborted"
    /\ i' = i

(* model(image) raises on the device *)
DeviceFail ==
    /\ pc = "featurize"
    /\ ~BatchConsumed
    /\ CurrentImage # None
    /\ LargeEnough(CurrentImage)
    /\ model_calls' = Append(model_calls,
           [row |-> RowIndex, image |-> CurrentImage, out |-> Raised("RuntimeError")])
    /\ device_raises
    /\ UNCHANGED <<config, failed, bound, model, dgdf, yr, mn,
                   parts, nqueries, df2, df3, matching_items, points, fetched, nbatch,
                   images, x_all, features_monthly, files, saved, visited, ic, generator, env, previous>>

LoaderExhausted_firstBatch == BatchConsumed

(* The dataloader is exhausted *)
LoaderExhausted == nbatch = Len(fetched) /\ BatchConsumed

(* features_monthly: the matrix with the lon, lat, year and month columns *)
Assemble ==
    /\ pc = "featurize"
    /\ LoaderExhausted
    /\ features_monthly' =
          [r \in 1..Len(x_all) |->
              [feats |-> x_all[r], lon |-> points[r][1], lat |-> points[r][2],
               year |-> yr, month |-> mn]]
    /\ pc' = "persist"
    /\ bound' = bound \cup {"features_monthly"}
    /\ UNCHANGED <<config, failed, model, dgdf, yr, mn,
                   parts, nqueries, df2, df3, matching_items, points, fetched, nbatch,
                   images, i, x_all, files, saved, visited, ic, model_calls, generator, env, previous>>

(* features_monthly[["lon", "lat"]] = points.tolist() when no point has a   *)
(* scene: the value is an empty list, which pandas from 1.4 on refuses for    *)
(* two columns (ValueError); the cell stops there. Earlier releases take the  *)
(* other path, Assemble.                                                      *)
AssembleFail ==
    /\ pc = "featurize"
    /\ LoaderExhausted
    /\ Len(points) = 0
    /\ pc' = "aborted"
    /\ bound' = bound \cup {"features_monthly"}
    /\ UNCHANGED <<config, failed, model, dgdf, yr, mn,
                   parts, nqueries, df2, df3, matching_items, points, fetched, nbatch,
                   images, i, x_all, features_monthly, files, saved, visited, ic, model_calls, generator, env, previous>>

(* features_monthly.to_feather(file_name) *)
Persist ==
    /\ pc = "persist"
    /\ files' = Append(files, file_name(yr, mn))
    /\ saved' = [name |-> file_name(yr, mn), table |-> features_monthly]
    /\ pc' = "release"
    /\ UNCHANGED <<config, failed, bound, model, dgdf, yr, mn,
                   parts, nqueries, df2, df3, matching_items, points, fetched, nbatch,
                   images, i, x_all, features_monthly, visited, ic, model_calls, generator, env, previous>>

(* The names the "del" statements remove *)
Deleted == {"meta", "query", "df2", "df3", "points", "dataset", "dataloader", "x_all",
            "features_monthly", "CustomDataset"}

(* "Free memory before loop iterates", then the next iteration or the end *)
Release ==
    /\ pc = "release"
    /\ bound' = (bound \ Deleted) \cup (IF HasNext(yr, mn) THEN {"query"} ELSE {})
    /\ df2' = <<>>
    /\ df3' = <<>>
    /\ points' = <<>>
    /\ fetched' = <<>>
    /\ x_all' = <<>>
    /\ features_monthly' = <<>>
    /\ IF HasNext(yr, mn)
       THEN EnterPeriod(NextYr(yr, mn), NextMn(yr, mn))
       ELSE /\ pc' = "done"
            /\ UNCHANGED <<yr, mn, visited, parts, nqueries, failed, dgdf>>
    /\ UNCHANGED <<config, model,
                   matching_items, nbatch, images, i, files, saved, ic, model_calls, generator, env, previous>>

Next ==
    \/ Seed
    \/ ModelInit
    \/ Partition
    \/ BeginLoop
    \/ \E k \in DOMAIN parts : Query(k)
    \/ \E k \in DOMAIN parts : QueryFail(k)
    \/ Compute
    \/ \E b \in DOMAIN fetched : Extract(b)
    \/ NextBatch
    \/ FeaturizeImage
    \/ DeviceFail
    \/ Assemble
    \/ AssembleFail
    \/ Persist
    \/ Release

Spec == Init /\ [][Next]_vars

----------------------------------------------------------------------------
(* query on its own: one partition and one search result, drawn at the      *)
(* start, and a single call                                                   *)
Orders(n) ==
    {f \in [1..n -> 1..n] : \A a, b \in 1..n : a # b => f[a] # f[b]}

InitQuery ==
    /\ num_features = 2
    /\ year_end = year_start
    /\ start_month = 12
    /\ pt_len \in 1..MaxPoints
    /\ NPARTITIONS = 1
    /\ batch_size = 1
    /\ hd = [p \in 1..pt_len |-> 0]
    /\ model = None
    /\ bound = {}
    /\ dgdf \in {<<f>> : f \in Orders(pt_len)}
    /\ ic \in [features : Responses(dgdf[1])]
    /\ pc = "query"
    /\ yr = year_start
    /\ mn = 12
    /\ parts = <<<<>>>>
    /\ nqueries = <<0>>
    /\ failed = {}
    /\ df2 = <<>>
    /\ df3 = <<>>
    /\ matching_items = <<>>
    /\ points = <<>>
    /\ fetched = <<>>
    /\ nbatch = 0
    /\ images = <<>>
    /\ i = 0
    /\ x_all = <<>>
    /\ features_monthly = <<>>
    /\ files = <<>>
    /\ saved = None
    /\ visited = <<>>
    /\ model_calls = <<>>
    /\ generator = manual_seed(seed)
    /\ env = None
    /\ previous = None

QueryAlone ==
    /\ pc = "query"
    /\ \E items \in sort_values(ic.features, cloud_cover(ic.features)) :
          parts' = <<query(dgdf[1], ic.features, items)>>
    /\ nqueries' = <<1>>
    /\ pc' = "queried"
    /\ UNCHANGED <<config, failed, bound, model, dgdf, yr, mn, df2, df3, matching_items,
                   points, fetched, nbatch, images, i, x_all, features_monthly, files,
                   saved, visited, ic, model_calls, generator, env, previous>>

NextQuery == QueryAlone

SpecQuery == InitQuery /\ [][NextQuery]_vars

----------------------------------------------------------------------------
(* __getitem__ on its own: a dataset of one matched point, the clipped      *)
(* stack of its scene drawn at the start, and a single call                  *)
InitGetItem ==
    /\ num_features = 4
    /\ year_end = year_start
    /\ start_month = 12
    /\ pt_len = 1
    /\ NPARTITIONS = 1
    /\ batch_size = 1
    /\ hd = [p \in 1..pt_len |-> 0]
    /\ model = RCF(num_features, manual_seed(seed))
    /\ bound = {"query", "meta", "df2", "df3", "matching_items", "points",
                "CustomDataset", "dataset", "dataloader", "x_all"}
    /\ dgdf = <<<<1>>>>
    /\ ic \in [patch : GivenPatches, scene : SceneIds]
    /\ pc = "getitem"
    /\ yr = year_start
    /\ mn = 12
    /\ parts = <<<<[pt |-> 1, stac_item |-> [id |-> ic.scene]]>>>>
    /\ nqueries = <<1>>
    /\ failed = {}
    /\ df2 = Rows(parts[1])
    /\ df3 = dropna(df2)
    /\ matching_items = <<sign(df3[1].stac_item)>>
    /\ points = <<<<lon(1), lat(1)>>>>
    /\ fetched = <<<<>>>>
    /\ nbatch = 0
    /\ images = <<>>
    /\ i = 0
    /\ x_all = <<Zeros(num_features)>>
    /\ features_monthly = <<>>
    /\ files = <<>>
    /\ saved = None
    /\ visited = <<<<year_start, 12>>>>
    /\ model_calls = <<>>
    /\ generator = [seed |-> seed, offset |-> RCF_draws(num_features)]
    /\ env = None
    /\ previous = None

(* dataset[0] *)
GetItemAlone ==
    /\ pc = "getitem"
    /\ fetched' = <<<<getitem(matching_items[1], ic.patch)>>>>
    /\ pc' = "got"
    /\ UNCHANGED <<config, failed, bound, model, dgdf, yr, mn, parts, nqueries, df2, df3,
                   matching_items, points, nbatch, images, i, x_all, features_monthly, files,
                   saved, visited, ic, model_calls, generator, env, previous>>

NextGetItem == GetItemAlone

SpecGetItem == InitGetItem /\ [][NextGetItem]_vars

----------------------------------------------------------------------------
(* The run when the services answer: the feature count is even, every       *)
(* catalog search returns, every clipped stack is computed, the device takes *)
(* every image.  The kernel executes the cells one after the other and the   *)
(* dask and DataLoader workers get to run, so a step that can be taken is    *)
(* not put off for ever.                                                      *)
InitLive ==
    /\ Init
    /\ EvenFeatures(num_features)

(* dataset[idx] when the try block computes the clipped stack *)
ExtractReturns(b) == \E o \in Patches : ExtractWith(b, o)

NextLive ==
    \/ Seed
    \/ ModelInit
    \/ Partition
    \/ BeginLoop
    \/ \E k \in DOMAIN parts : Query(k)
    \/ Compute
    \/ \E b \in DOMAIN fetched : ExtractReturns(b)
    \/ NextBatch
    \/ FeaturizeImage
    \/ Assemble
    \/ AssembleFail
    \/ Persist
    \/ Release

SpecLive == InitLive /\ [][NextLive]_vars /\ WF_vars(NextLive)

----------------------------------------------------------------------------
(* A run and its repetition against an unchanged catalog: the whole notebook *)
(* in a restarted kernel, or the loop cell again in the same kernel.  What    *)
(* the catalog answers, what the scenes hold around the points, and the       *)
(* order the sort gives to equal keys (the sort is a fixed algorithm: equal   *)
(* input, equal output) are drawn once, in env, and serve both runs.  Only    *)
(* runs that write their table are followed.                                  *)

(* The window of scene id around point p *)
raster(id, p) ==
    IF (id + p) % 2 = 0
    THEN [h |-> min_image_edge, w |-> min_image_edge, px |-> "ramp"]
    ELSE IF p % 2 = 1
         THEN [h |-> min_image_edge, w |-> min_image_edge - 1, px |-> "ramp"]
         ELSE [h |-> min_image_edge, w |-> min_image_edge, px |-> "flat"]

(* The items of the catalog as the search for the hull of pts returns them  *)
Within(features, pts) ==
    [j \in DOMAIN features |-> [features[j] EXCEPT !.geometry = @ \cap Range(pts)]]

(* The point that has the coordinates of an entry of the point list *)
PointAt(lonlat) == CHOOSE q \in 1..pt_len : lon(q) = lonlat[1] /\ lat(q) = lonlat[2]

InitRerun ==
    /\ num_features = 4
    /\ year_end = year_start
    /\ start_month = 12
    /\ pt_len \in 1..MaxPoints
    /\ hd = [q \in 1..pt_len |-> 0]
    /\ NPARTITIONS \in PartitionCounts
    /\ batch_size = NPARTITIONS
    /\ \E sorted \in sort_values(gdf, hilbert_distance), features \in Responses(gdf) :
          \E items \in sort_values(features, cloud_cover(features)) :
              env = [sorted |-> sorted, features |-> features, items |-> items]
    /\ generator \in GeneratorStates
    /\ previous = None
    /\ model = None
    /\ dgdf = <<>>
    /\ pc = "start"
    /\ yr = 0
    /\ mn = 0
    /\ parts = <<>>
    /\ nqueries = <<>>
    /\ failed = {}
    /\ bound = {}
    /\ df2 = <<>>
    /\ df3 = <<>>
    /\ matching_items = <<>>
    /\ points = <<>>
    /\ fetched = <<>>
    /\ nbatch = 0
    /\ images = <<>>
    /\ i = 0
    /\ x_all = <<>>
    /\ features_monthly = <<>>
    /\ files = <<>>
    /\ saved = None
    /\ visited = <<>>
    /\ ic = None
    /\ model_calls = <<>>

RerunPartition == PartitionAs(env.sorted)

RerunQuery(k) == QueryWith(k, Within(env.features, dgdf[k]), Within(env.items, dgdf[k]))

RerunExtract(b) ==
    /\ pc = "featurize"
    /\ b \in DOMAIN fetched
    /\ ~BatchDone(b)
    /\ ExtractWith(b, raster(matching_items[NextIndex(b)].id.id, PointAt(points[NextIndex(b)])))

(* What the finished run has produced *)
Results == [model |-> model, dgdf |-> dgdf, saved |-> saved]

(* The kernel is restarted and the notebook run again from its first cell:  *)
(* nothing of the kernel is left, the files are                               *)
RestartAll ==
    /\ pc = "done"
    /\ previous = None
    /\ previous' = Results
    /\ generator' \in GeneratorStates
    /\ model' = None
    /\ dgdf' = <<>>
    /\ pc' = "start"
    /\ yr' = 0
    /\ mn' = 0
    /\ parts' = <<>>
    /\ nqueries' = <<>>
    /\ failed' = {}
    /\ bound' = {}
    /\ df2' = <<>>
    /\ df3' = <<>>
    /\ matching_items' = <<>>
    /\ points' = <<>>
    /\ fetched' = <<>>
    /\ nbatch' = 0
    /\ images' = <<>>
    /\ i' = 0
    /\ x_all' = <<>>
    /\ features_monthly' = <<>>
    /\ visited' = <<>>
    /\ model_calls' = <<>>
    /\ UNCHANGED <<config, files, saved, ic, env>>

(* The loop cell is run again in the same kernel, with all the kernel holds *)
RerunLoop ==
    /\ pc = "done"
    /\ previous = None
    /\ previous' = Results
    /\ EnterPeriod(year_start, month_range_start(year_start))
    /\ bound' = bound \cup {"query"}
    /\ UNCHANGED <<config, model, df2, df3, matching_items, points, fetched, nbatch,
                   images, i, x_all, features_monthly, files, saved, ic, model_calls,
                   generator, env>>

NextRerun ==
    \/ Seed
    \/ ModelInit
    \/ RerunPartition
    \/ BeginLoop
    \/ \E k \in DOMAIN parts : RerunQuery(k)
    \/ Compute
    \/ \E b \in DOMAIN fetched : RerunExtract(b)
    \/ NextBatch
    \/ FeaturizeImage
    \/ Assemble
    \/ Persist
    \/ Release
    \/ RestartAll
    \/ RerunLoop

SpecRerun == InitRerun /\ [][NextRerun]_vars

----------------------------------------------------------------------------
(* A run over November and December against a catalog that answers every    *)
(* search, with the answers and the windows the scenes hold drawn once, in   *)
(* env; the order the sort gives to equal Hilbert distances is left open.    *)
InitPeriods ==
    /\ num_features = 4
    /\ year_end = year_start
    /\ start_month = 11
    /\ pt_len \in 1..MaxPoints
    /\ hd \in [1..pt_len -> HdValues]
    /\ NPARTITIONS \in PartitionCounts
    /\ batch_size = NPARTITIONS
    /\ \E features \in Responses(gdf) :
          \E items \in sort_values(features, cloud_cover(features)) :
              env = [features |-> features, items |-> items]
    /\ generator = [seed |-> 0, offset |-> 0]
    /\ previous = None
    /\ model = None
    /\ dgdf = <<>>
    /\ pc = "start"
    /\ yr = 0
    /\ mn = 0
    /\ parts = <<>>
    /\ nqueries = <<>>
    /\ failed = {}
    /\ bound = {}
    /\ df2 = <<>>
    /\ df3 = <<>>
    /\ matching_items = <<>>
    /\ points = <<>>
    /\ fetched = <<>>
    /\ nbatch = 0
    /\ images = <<>>
    /\ i = 0
    /\ x_all = <<>>
    /\ features_monthly = <<>>
    /\ files = <<>>
    /\ saved = None
    /\ visited = <<>>
    /\ ic = None
    /\ model_calls = <<>>

NextPeriods ==
    \/ Seed
    \/ ModelInit
    \/ Partition
    \/ BeginLoop
    \/ \E k \in DOMAIN parts : RerunQuery(k)
    \/ Compute
    \/ \E b \in DOMAIN fetched : RerunExtract(b)
    \/ NextBatch
    \/ FeaturizeImage
    \/ Assemble
    \/ Persist
    \/ Release

SpecPeriods == InitPeriods /\ [][NextPeriods]_vars

----------------------------------------------------------------------------
(* Vocabulary of the properties *)

(* The periods of the configured range *)
ConfiguredPeriods ==
    {<<y, m>> \in (year_start..year_end) \X (1..12) : y = year_start => m >= start_month}

(* Position of a period in calendar order *)
Chrono(per) == per[1] * 12 + per[2]

(* The point whose coordinates a row carries *)
HasCoords(row, p) == row.lon = lon(p) /\ row.lat = lat(p)

(* The points of the partitioned frame, in its order *)
PartitionOrder == Concat(dgdf)

(* Point p has a scene in the frame compute() returned *)
Matched(p) == \E k \in DOMAIN df2 : df2[k].label = p /\ df2[k].stac_item # None

IsZeroRow(row) == row.feats = Zeros(num_features)

----------------------------------------------------------------------------
(* C1 *)

----------------------------------------------------------------------------
(* C2 *)

(* C2, as stated: row k of a saved table is the k-th point of the input     *)
(* point set.                                                                 *)
C2_RowsInInputOrder ==
    pc = "release" =>
        \A k \in DOMAIN saved.table : k \in DOMAIN gdf /\ HasCoords(saved.table[k], gdf[k])

(* C2, amended: the rows of a saved table are the points that have a scene, *)
(* in the order of the partitioned frame, which is ascending in Hilbert      *)
(* distance: the partitions' results are concatenated in partition order,    *)
(* and row k is the k-th matched point of that order.                         *)
C2_RowsInPartitionOrder ==
    /\ \A a, b \in DOMAIN PartitionOrder :
          a < b => hd[PartitionOrder[a]] <= hd[PartitionOrder[b]]
    /\ pc = "release" =>
          LET kept == SelectSeq(PartitionOrder, Matched)
          IN  /\ Len(saved.table) = Len(kept)
              /\ \A k \in DOMAIN kept : HasCoords(saved.table[k], kept[k])
              /\ [k \in DOMAIN df2 |-> df2[k].label] = PartitionOrder

(* Two matched points in two partitions, the second input point first *)
C2_Witness ==
    /\ pc = "release"
    /\ Len(dgdf) = 2
    /\ Len(saved.table) = 2
    /\ HasCoords(saved.table[1], 2)
    /\ HasCoords(saved.table[2], 1)

----------------------------------------------------------------------------
(* C3 *)

----------------------------------------------------------------------------
(* C4 *)

(* C4: when the run is done, every configured (year, month) has exactly one *)
(* file, nothing else was written, and the names of distinct periods differ. *)
C4_OneFilePerPeriod ==
    pc = "done" =>
        /\ \A per \in ConfiguredPeriods :
              Cardinality({k \in DOMAIN files : files[k] = file_name(per[1], per[2])}) = 1
        /\ Len(files) = Cardinality(ConfiguredPeriods)
        /\ \A a, b \in ConfiguredPeriods :
              a # b => file_name(a[1], a[2]) # file_name(b[1], b[2])

(* A run over two years, from November, is done *)
C4_Witness ==
    /\ pc = "done"
    /\ year_end > year_start
    /\ start_month = 11
    /\ Len(files) = 14

----------------------------------------------------------------------------
(* C5 *)

(* C5: the loop enters the periods in calendar order without a gap, from    *)
(* the starting month of the first year, and when the run is done the last   *)
(* one entered is December of the last year; so each configured period is    *)
(* entered exactly once.                                                      *)
C5_PeriodsInOrder ==
    /\ \A k \in DOMAIN visited :
          /\ visited[k] \in ConfiguredPeriods
          /\ Chrono(visited[k]) = Chrono(<<year_start, start_month>>) + k - 1
    /\ pc \in {"match", "featurize", "persist", "release"} =>
          visited # <<>> /\ visited[Len(visited)] = <<yr, mn>>
    /\ pc = "done" =>
          /\ Range(visited) = ConfiguredPeriods
          /\ Len(visited) = Cardinality(ConfiguredPeriods)
          /\ visited[Len(visited)] = <<year_end, 12>>

(* The loop has passed from December to January *)
C5_Witness ==
    /\ Len(visited) >= 3
    /\ visited[2] = <<year_start, 12>>
    /\ visited[3] = <<year_start + 1, 1>>

----------------------------------------------------------------------------
(* C6 *)

(* Every partition of the period has its assignments *)
MatchFinished ==
    /\ DOMAIN parts = DOMAIN dgdf
    /\ \A k \in DOMAIN parts : Len(parts[k]) = Len(dgdf[k])
    /\ "df2" \in bound

(* C6: within a period nothing is extracted before the matching of that     *)
(* period has finished; the table is assembled and saved only after the      *)
(* loop has gone through every entry of the period's point list; and a       *)
(* period's matching starts only after the previous period's table has been  *)
(* saved and its structures deleted.                                          *)
C6_StageOrder ==
    /\ ((\E b \in DOMAIN fetched : fetched[b] # <<>>)
        \/ pc \in {"featurize", "persist", "release"}) => MatchFinished
    /\ pc \in {"persist", "release"} =>
          /\ i = Len(points)
          /\ nbatch = NumBatches(Len(points))
          /\ "features_monthly" \in bound
          /\ Len(features_monthly) = Len(points)
    /\ pc = "release" =>
          /\ saved.table = features_monthly
          /\ saved.name = file_name(yr, mn)
          /\ Len(files) = Len(visited)
    /\ pc \in {"match", "featurize", "persist"} => Len(files) = Len(visited) - 1
    /\ pc = "match" =>
          /\ fetched = <<>>
          /\ bound \cap Deleted \subseteq {"query"}
          /\ Len(visited) > 1 => saved.name = files[Len(visited) - 1]

(* The matching of a second period is under way *)
C6_Witness ==
    /\ pc = "match"
    /\ Len(visited) = 2
    /\ \E k \in DOMAIN parts : parts[k] # <<>>

----------------------------------------------------------------------------
(* C7 *)

(* C7: in a period no partition is searched more than once, there are never *)
(* more searches than the configured number of partitions, however many      *)
(* points there are, and once matching is over every partition has been      *)
(* searched exactly once.                                                     *)
C7_OneQueryPerPartition ==
    /\ \A k \in DOMAIN nqueries : nqueries[k] <= 1
    /\ Len(nqueries) <= NPARTITIONS
    /\ pc \in {"featurize", "persist", "release", "done"} =>
          /\ DOMAIN nqueries = DOMAIN dgdf
          /\ \A k \in DOMAIN nqueries : nqueries[k] = 1

(* A partition of two points was searched once *)
C7_Witness ==
    /\ pc = "featurize"
    /\ \E k \in DOMAIN dgdf : Len(dgdf[k]) = 2 /\ nqueries[k] = 1

----------------------------------------------------------------------------
(* C8 *)

(* C8: query gives every point of the partition, in the partition's order,  *)
(* at most one scene: none exactly when no returned item covers the point    *)
(* (so none at all for an empty result), and otherwise a returned item that  *)
(* covers the point and has the least cloud cover of those that do.           *)
C8_LeastCloudyCoveringItem ==
    pc = "queried" =>
        /\ Len(parts[1]) = Len(dgdf[1])
        /\ \A k \in DOMAIN parts[1] :
              LET p == dgdf[1][k]
                  got == parts[1][k].stac_item
                  cov == {j \in DOMAIN ic.features : p \in ic.features[j].geometry}
              IN  /\ parts[1][k].pt = p
                  /\ (got = None) <=> (cov = {})
                  /\ got # None =>
                        \E j \in cov :
                            /\ ic.features[j].id = got.id
                            /\ \A j2 \in cov : ic.features[j].cc <= ic.features[j2].cc

(* Two items cover a point and the catalog returned the cloudier one first *)
C8_Witness ==
    /\ pc = "queried"
    /\ Len(ic.features) = 2
    /\ ic.features[1].cc > ic.features[2].cc
    /\ dgdf[1][1] \in ic.features[1].geometry \cap ic.features[2].geometry
    /\ parts[1][1].stac_item = [id |-> ic.features[2].id]

----------------------------------------------------------------------------
(* C9 *)

(* C9, as stated: a partition whose search raised is treated as having no   *)
(* candidate (null assignments for its points) and the run goes on.           *)
C9_FailedQueryIsNoCandidates ==
    \A k \in failed : parts[k] = null_assignments(dgdf[k]) /\ pc # "aborted"

(* C9, amended: when the search of a partition raises, the exception leaves *)
(* compute(): the partition gets no assignments, the period's frame is never *)
(* built, nothing is extracted, no file is written for the period, and the   *)
(* run stops there.                                                           *)
C9_FailedQueryStopsRun ==
    failed # {} =>
        /\ pc = "aborted"
        /\ \A k \in failed : parts[k] = <<>>
        /\ "df2" \notin bound
        /\ fetched = <<>>
        /\ Len(files) = Len(visited) - 1

(* The search of one partition raised after another partition was matched *)
C9_Witness ==
    /\ failed # {}
    /\ \E k \in DOMAIN parts : parts[k] # <<>>

----------------------------------------------------------------------------
(* C10 *)

(* C10, as stated: no exception raised while a patch is extracted leaves    *)
(* __getitem__ (the point gets an invalid patch instead), so extraction      *)
(* never stops the period.                                                    *)
C10_ExtractionNeverRaises ==
    \A b \in DOMAIN fetched : \A k \in DOMAIN fetched[b] : ~IsError(fetched[b][k])

----------------------------------------------------------------------------
(* C11 *)

(* A patch one of whose edges is below the minimum edge *)
BelowThreshold(image) == image.h < min_image_edge \/ image.w < min_image_edge

(* The row of x_all that belongs to the k-th image of the batch in hand *)
RowOf(k) == (nbatch - 1) * batch_size + k

(* C11: the model is called only on patches whose height and width both     *)
(* reach the minimum edge; a patch with an edge below it is passed over, no  *)
(* call is made for its row, and its row stays all-zero in the matrix and in *)
(* the saved table.                                                           *)
C11_SmallPatchNotFeaturized ==
    /\ \A c \in DOMAIN model_calls : ~BelowThreshold(model_calls[c].image)
    /\ \A k \in DOMAIN images :
          (RowOf(k) <= i /\ RowOf(k) \in DOMAIN x_all /\ BelowThreshold(images[k])) =>
              /\ x_all[RowOf(k)] = Zeros(num_features)
              /\ \A c \in DOMAIN model_calls : model_calls[c].row # RowOf(k)
              /\ pc = "release" => saved.table[RowOf(k)].feats = Zeros(num_features)

(* A batch of a patch cut by the scene edge and a full patch has been gone  *)
(* through and saved: one row is zero, the other is not                       *)
C11_Witness ==
    /\ pc = "release"
    /\ Len(images) = 2
    /\ BelowThreshold(images[1])
    /\ images[1].h > 0
    /\ ~BelowThreshold(images[2])
    /\ Len(model_calls) = 1
    /\ saved.table[2].feats # Zeros(num_features)

----------------------------------------------------------------------------
(* C12 *)

(* C12: with an odd feature count the construction of the model fails, and  *)
(* the run stops there: no model exists, the points are not partitioned, no  *)
(* period is entered, no catalog search is issued and no file is written.    *)
C12_OddCountRejectedFirst ==
    num_features % 2 = 1 =>
        /\ pc \in {"start", "init", "rejected"}
        /\ model = None
        /\ dgdf = <<>>
        /\ visited = <<>>
        /\ nqueries = <<>>
        /\ files = <<>>
        /\ saved = None

(* The construction of the model has failed on a feature count of three *)
C12_Witness ==
    /\ pc = "rejected"
    /\ num_features = 3

----------------------------------------------------------------------------
(* C13 *)

(* The model returned from the call (it did not raise on the device) *)
Returned(call) == call.out # Raised("RuntimeError")

(* C13, as stated: every call of the model on a patch of valid size returns *)
(* a vector of exactly num_features entries, the num_features \div 2 pooled  *)
(* positive responses followed by the num_features \div 2 pooled negative    *)
(* ones.                                                                      *)
C13_OutputHasFEntries ==
    \A c \in DOMAIN model_calls :
        LET call == model_calls[c]
            half == num_features \div 2
        IN  Returned(call) =>
                /\ call.out # None
                /\ Len(call.out.data) = num_features
                /\ call.image.d # 0 =>
                      \A j \in 1..half :
                          /\ call.out.data[j] = pool(model, call.image, j, 1)
                          /\ call.out.data[half + j] = pool(model, call.image, j, -1)

----------------------------------------------------------------------------
(* C14 *)

(* C14: when a period that has been processed is processed again, with the  *)
(* same points and configuration and against the same catalog, the table     *)
(* written the second time equals the first: same rows, in the same order,   *)
(* with the same values, under the same name.                                 *)
C14_RerunWritesSameTable ==
    (previous # None /\ pc \in {"release", "done"}) =>
        /\ saved.table = previous.saved.table
        /\ saved.name = previous.saved.name
        /\ Len(files) = 2

(* The table of two rows, one featurized and one left at zero, has been     *)
(* written a second time by the loop cell run again in the same kernel       *)
C14_Witness ==
    /\ previous # None
    /\ pc = "done"
    /\ Len(visited) = 2
    /\ Len(saved.table) = 2
    /\ \E r \in 1..2 : IsZeroRow(saved.table[r])
    /\ \E r \in 1..2 : ~IsZeroRow(saved.table[r])

----------------------------------------------------------------------------
(* C15 *)

(* The release of a period is done and the matching of the next has not     *)
(* begun, or the run is over                                                  *)
Released ==
    \/ pc = "done"
    \/ /\ pc = "match"
       /\ Len(visited) > 1
       /\ \A k \in DOMAIN nqueries : nqueries[k] = 0

(* C15, as stated: once a period is released, and before the next one is    *)
(* matched, none of the period's structures is left: no assignments, no      *)
(* matched scene references, no patches, dataset or loader, no feature       *)
(* matrix and no table.                                                       *)
C15_ReleaseDropsPeriodState ==
    Released =>
        /\ df2 = <<>>
        /\ df3 = <<>>
        /\ matching_items = <<>>
        /\ points = <<>>
        /\ fetched = <<>>
        /\ images = <<>>
        /\ x_all = <<>>
        /\ features_monthly = <<>>

----------------------------------------------------------------------------
(* C16 *)

(* C16, as stated: when every catalog search and every extraction returns,  *)
(* the run reaches the end of the loop: as every step moves the run forward, *)
(* that is, the run never stops anywhere but at the end; and it is at the    *)
(* end only with the file of every configured period written, the last one   *)
(* being that of December of the last year.                                   *)
C16_StopsOnlyWhenDone ==
    /\ pc = "done" \/ ENABLED NextLive
    /\ pc = "done" =>
          /\ Len(files) = Cardinality(ConfiguredPeriods)
          /\ files[Len(files)] = file_name(year_end, 12)

----------------------------------------------------------------------------
(* C18 *)

(* The places (partition, position) at which point p stands in dgdf *)
PlacesOf(p) == {<<k, j>> \in (DOMAIN dgdf) \X (1..pt_len) : j \in DOMAIN dgdf[k] /\ dgdf[k][j] = p}

(* C18: once the points are partitioned, every input point stands in        *)
(* exactly one partition, at one place; the partitions, none of them empty   *)
(* and no more than NPARTITIONS, are consecutive slices of a sequence of     *)
(* all the points that ascends in Hilbert distance; and in a period every    *)
(* point gets exactly one assignment: one row in the result of its           *)
(* partition and one row in the frame compute() returns.                      *)
C18_EachPointInOnePartition ==
    pc \notin {"start", "init", "rejected", "partition"} =>
        /\ \A p \in 1..pt_len : Cardinality(PlacesOf(p)) = 1
        /\ Len(Concat(dgdf)) = pt_len
        /\ \A k \in DOMAIN dgdf : dgdf[k] # <<>>
        /\ Len(dgdf) <= NPARTITIONS
        /\ \A a, b \in 1..pt_len :
              a < b => hd[Concat(dgdf)[a]] <= hd[Concat(dgdf)[b]]
        /\ \A k \in DOMAIN parts :
              parts[k] # <<>> => [j \in DOMAIN parts[k] |-> parts[k][j].pt] = dgdf[k]
        /\ pc \in {"featurize", "persist", "release"} =>
              \A p \in 1..pt_len : Cardinality({r \in DOMAIN df2 : df2[r].label = p}) = 1

(* Two points in two partitions, the point of the smaller Hilbert distance, *)
(* the second of the input, in the first; both matched                        *)
C18_Witness ==
    /\ pc = "featurize"
    /\ Len(dgdf) = 2
    /\ hd[2] < hd[1]
    /\ dgdf[1] = <<2>>
    /\ Len(df2) = 2

----------------------------------------------------------------------------
(* C20 *)

(* What forward gives for model m on a patch, read from the table where it  *)
(* is tabulated                                                               *)
ForwardOf(m, image) ==
    IF <<m, image>> \in DOMAIN ForwardTable THEN ForwardTable[<<m, image>>]
    ELSE forward(m, image)

(* C20: no step of the run, featurization call or passage to the next       *)
(* period, changes the weights or the bias of the model once it is           *)
(* constructed; every vector a call has returned is the one the model as it  *)
(* is now gives for the call's patch, and two calls on the same patch that  *)
(* have returned have returned the same vector.                               *)
C20_ModelIsFixed ==
    [][/\ model # None => model' = model
       /\ \A c \in DOMAIN model_calls' :
             LET call == model_calls'[c]
             IN  (Returned(call) /\ call.out # None) =>
                     /\ call.out = ForwardOf(model', call.image)
                     /\ call.row \in DOMAIN x_all' => x_all'[call.row] = call.out.data
                     /\ \A c2 \in DOMAIN model_calls' :
                           (Returned(model_calls'[c2]) /\ model_calls'[c2].image = call.image)
                               => model_calls'[c2].out = call.out
      ]_vars

(* In the second period of a run the model is called on a patch equal to    *)
(* that of the first period, whose saved row holds the vector returned now   *)
C20_Witness ==
    /\ pc = "featurize"
    /\ Len(visited) = 2
    /\ Len(model_calls) = 1
    /\ model_calls[1].image.d # 0
    /\ Len(saved.table) = 1
    /\ saved.table[1].feats = model_calls[1].out.data

----------------------------------------------------------------------------
(* C19 *)

(* C19: the model constructed when the notebook is run again in a restarted *)
(* kernel, whatever state the kernel's generator starts in, has the weights  *)
(* of the model of the first run, both being constructed after the seeding   *)
(* with the same seed; and the bias of every model is the constant -1.       *)
C19_SameSeedSameWeights ==
    /\ model # None => model.bias = -1
    /\ (previous # None /\ model # None) =>
          /\ model.weight = previous.model.weight
          /\ model.bias = previous.model.bias

(* The model has been constructed a second time, in a kernel restarted with *)
(* its generator in a state that is not the seeded one, and the draws that   *)
(* follow the seeding differ from those a used generator would give          *)
C19_Witness ==
    /\ previous # None
    /\ pc = "partition"
    /\ model # None
    /\ \E g \in GeneratorStates : RCF(num_features, g) # model

----------------------------------------------------------------------------
(* C21 *)

(* The normalised values of a tensor, as numerators over its d *)
Numerators(t) == {t.num[q[1]][q[2]][q[3]] : q \in (DOMAIN t.num) \X (1..t.h) \X (1..t.w)}

----------------------------------------------------------------------------
(* C22 *)

(* A tensor whose values are 0/0 *)
Undefined(t) == t # None /\ ~IsError(t) /\ t.d = 0

(* C22, as stated: a patch whose pixels are all equal is normalised to      *)
(* defined values: no tensor of undefined values leaves __getitem__, none is  *)
(* given to the model, and no undefined feature is written into the matrix   *)
(* or into the saved table.                                                   *)
C22_ConstantPatchIsDefined ==
    /\ \A b \in DOMAIN fetched : \A k \in DOMAIN fetched[b] : ~Undefined(fetched[b][k])
    /\ \A c \in DOMAIN model_calls : model_calls[c].image.d # 0
    /\ \A r \in DOMAIN x_all : NaN \notin Range(x_all[r])
    /\ pc = "release" => \A r \in DOMAIN saved.table : NaN \notin Range(saved.table[r].feats)

----------------------------------------------------------------------------
(* C23 *)

(* The scene the catalog's answer assigns to point p, and the window of     *)
(* that scene around p                                                        *)
SceneOf(p) == first_item(env.features, env.items, p)

PatchOf(p) == raster(SceneOf(p).id, p)

(* What the loop leaves in the row of a point with patch o *)
FeaturesOf(o) ==
    IF LargeEnough(o) THEN ForwardOf(model, NormalizeTable[o]).data ELSE Zeros(num_features)

(* C23: every row of a saved table carries the coordinates of one of the    *)
(* points that have a scene, no two rows the same point, the year and month  *)
(* of the period, and the features of that very point's patch: those the      *)
(* model gives for the window of the point's scene around the point, or       *)
(* zeros when the window is too small.  When every point has a scene and a   *)
(* full-size window, the table has a row for every point and none is zero.   *)
C23_RowsCarryOwnPointAndPeriod ==
    pc = "release" =>
        /\ \A r \in DOMAIN saved.table :
              LET row == saved.table[r]
              IN  /\ \E q \in 1..pt_len : HasCoords(row, q)
                  /\ SceneOf(PointAt(<<row.lon, row.lat>>)) # None
                  /\ row.feats = FeaturesOf(PatchOf(PointAt(<<row.lon, row.lat>>)))
                  /\ row.year = yr
                  /\ row.month = mn
                  /\ <<row.year, row.month>> = visited[Len(visited)]
                  /\ \A r2 \in DOMAIN saved.table :
                        r2 # r => <<saved.table[r2].lon, saved.table[r2].lat>> # <<row.lon, row.lat>>
        /\ (\A q \in 1..pt_len : SceneOf(q) # None /\ LargeEnough(PatchOf(q))) =>
              /\ Len(saved.table) = pt_len
              /\ \A r \in DOMAIN saved.table : ~IsZeroRow(saved.table[r])

(* One scene covers the two points, the second point comes first in the     *)
(* partitioned frame, both windows are of full size and differ: two rows,    *)
(* neither zero, the first with the coordinates of the second point           *)
C23_Witness ==
    /\ pc = "release"
    /\ pt_len = 2
    /\ Len(env.features) = 1
    /\ env.features[1].geometry = {1, 2}
    /\ env.sorted = <<2, 1>>
    /\ batch_size = 2
    /\ Len(saved.table) = 2
    /\ HasCoords(saved.table[1], 2)
    /\ saved.table[1].feats # saved.table[2].feats
    /\ \A r \in 1..2 : ~IsZeroRow(saved.table[r])

----------------------------------------------------------------------------
(* C24 *)

(* The tensor dataset[idx] gives for the idx-th entry of the point list *)
TensorOf(idx) == NormalizeTable[PatchOf(PointAt(points[idx]))]

(* C24: while the workers extract the batches in any order, what a worker   *)
(* holds at position k of batch b is the tensor of entry BatchIndices(b)[k]  *)
(* of the point list; the calls of the model are made for rows of the matrix *)
(* in increasing order, so no row is written twice and none outside the      *)
(* matrix; the call for row r is made on the tensor of entry r and row r     *)
(* holds its result; rows the loop has not reached, and rows without a call, *)
(* hold zeros.                                                                *)
C24_RowWrittenOnceByOwnPoint ==
    pc \in {"featurize", "persist", "release"} =>
        /\ Len(x_all) = Len(points)
        /\ \A b \in DOMAIN fetched : \A k \in DOMAIN fetched[b] :
              fetched[b][k] = TensorOf(BatchIndices(b, Len(points))[k])
        /\ \A c \in DOMAIN model_calls :
              LET call == model_calls[c]
              IN  /\ call.row \in DOMAIN x_all
                  /\ call.row <= i
                  /\ call.image = TensorOf(call.row)
                  /\ x_all[call.row] = call.out.data
                  /\ \A c2 \in DOMAIN model_calls : c < c2 => call.row < model_calls[c2].row
        /\ \A r \in DOMAIN x_all :
              (r > i \/ \A c \in DOMAIN model_calls : model_calls[c].row # r)
                  => x_all[r] = Zeros(num_features)

(* With batches of one image, the worker of the second batch has finished;  *)
(* the loop has written the first row from the first batch, whose tensor is  *)
(* not that of the second, and the second row is still zero                   *)
C24_Witness ==
    /\ pc = "featurize"
    /\ batch_size = 1
    /\ Len(points) = 2
    /\ nbatch = 1
    /\ i = 1
    /\ BatchDone(2)
    /\ Len(model_calls) = 1
    /\ model_calls[1].image # fetched[2][1]
    /\ LargeEnough(fetched[2][1])
    /\ x_all[1] # Zeros(num_features)
    /\ x_all[2] = Zeros(num_features)

----------------------------------------------------------------------------
(* C25 *)

(* C25: while a partition of the period is still without its result, the    *)
(* period has no frame, no point list and no dataset, and nothing has been   *)
(* extracted, whichever partitions have got theirs; once the frame is built  *)
(* every partition has been searched once, none has failed, and the frame is *)
(* the concatenation of all their results, one row for every input point;    *)
(* and after a failed search nothing is built or extracted.                   *)
C25_MatchWaitsForAllPartitions ==
    /\ pc = "match" =>
          /\ df2 = <<>>
          /\ df3 = <<>>
          /\ points = <<>>
          /\ fetched = <<>>
          /\ "dataset" \notin bound
    /\ (pc \in {"featurize", "persist", "release"} \/ df2 # <<>> \/ fetched # <<>>) =>
          /\ failed = {}
          /\ \A k \in DOMAIN dgdf :
                nqueries[k] = 1 /\ Len(parts[k]) = Len(dgdf[k]) /\ parts[k] # <<>>
          /\ df2 = concat(parts)
          /\ Len(df2) = pt_len
          /\ Len(points) = Len(df3)
    /\ failed # {} => (df2 = <<>> /\ points = <<>> /\ fetched = <<>>)

(* The second of two partitions has its result, the first has not: nothing  *)
(* of the period is built yet                                                 *)
C25_Witness ==
    /\ pc = "match"
    /\ Len(dgdf) = 2
    /\ parts[1] = <<>>
    /\ nqueries[1] = 0
    /\ parts[2] # <<>>
    /\ parts[2][1].stac_item # None
    /\ df2 = <<>>

----------------------------------------------------------------------------
(* C26 *)

(* The main loop is between two batches *)
AwaitingBatch == pc = "featurize" /\ BatchConsumed /\ nbatch < Len(fetched)

(* C26, as stated: whenever the main loop waits for a batch and some batch  *)
(* has all its extractions finished, the loop can go on with a batch: no     *)
(* extraction still in progress holds back a batch that is ready.             *)
C26_ReadyBatchNotBlocked ==
    (AwaitingBatch /\ \E b \in DOMAIN fetched : b > nbatch /\ BatchDone(b))
        => ENABLED NextBatch

(* C26, amended: the batches are consumed in index order.  The next batch   *)
(* in that order can be taken as soon as its own extractions have finished,   *)
(* and the images of the batch in hand can be featurized, whatever the state *)
(* of the later batches; but while the next batch in order is not finished    *)
(* the loop waits, even if a later batch is ready, and the table is not       *)
(* assembled.                                                                 *)
C26_NextBatchInOrderNotBlocked ==
    /\ (AwaitingBatch /\ BatchDone(nbatch + 1)) => ENABLED NextBatch
    /\ (pc = "featurize" /\ ~BatchConsumed) => ENABLED (FeaturizeImage \/ DeviceFail)
    /\ (AwaitingBatch /\ ~BatchDone(nbatch + 1)) =>
          /\ ~ENABLED NextBatch
          /\ ~ENABLED FeaturizeImage
          /\ ~ENABLED Assemble

(* The image of the first batch has been featurized while the extraction of *)
(* the second batch has not finished                                          *)
C26_Witness ==
    /\ pc = "featurize"
    /\ Len(fetched) = 2
    /\ nbatch = 1
    /\ i = 1
    /\ Len(model_calls) = 1
    /\ x_all[1] # Zeros(num_features)
    /\ ~BatchDone(2)

----------------------------------------------------------------------------
(* C27 *)

----------------------------------------------------------------------------
(* C28 *)

(* The positions, in the order the catalog returned the items, of the items *)
(* that cover point p with the least cloud cover of those that cover it      *)
LeastCloudyCovering(p) ==
    LET cov == {j \in DOMAIN ic.features : covers(ic.features[j], p)}
    IN  {j \in cov : \A j2 \in cov : ic.features[j].cc <= ic.features[j2].cc}

(* C28, as stated: of the items that cover a point with the same, least     *)
(* cloud cover, query assigns the one the catalog returned first.             *)
C28_TieGoesToFirstReturned ==
    pc = "queried" =>
        \A k \in DOMAIN parts[1] :
            LeastCloudyCovering(dgdf[1][k]) # {} =>
                parts[1][k].stac_item =
                    [id |-> ic.features[Min(LeastCloudyCovering(dgdf[1][k]))].id]

----------------------------------------------------------------------------
(* C29 *)

(* C29: once the points are partitioned, no step of the run, in any period, *)
(* changes the points, their Hilbert distances, the partition count or the   *)
(* partitioned frame: every point keeps its partition and its position.  The *)
(* steps of a period only add the period's own data, which follows the frame: *)
(* the result of partition k lists the points of partition k in their order,  *)
(* and the frame compute() returns lists all points in partitioned order.     *)
C29_PartitionsFixedAcrossPeriods ==
    [][pc \notin {"start", "init", "partition"} =>
          /\ dgdf' = dgdf
          /\ <<pt_len, hd, NPARTITIONS>>' = <<pt_len, hd, NPARTITIONS>>
          /\ \A p \in 1..pt_len : PlacesOf(p)' = PlacesOf(p)
          /\ \A k \in DOMAIN parts' :
                parts'[k] # <<>> => [j \in DOMAIN parts'[k] |-> parts'[k][j].pt] = dgdf[k]
          /\ df2' # <<>> => [r \in DOMAIN df2' |-> df2'[r].label] = Concat(dgdf)
      ]_vars

(* The second period of a run has been matched: two points of equal Hilbert *)
(* distance, which a new sort could order otherwise, in two partitions        *)
C29_Witness ==
    /\ pc = "featurize"
    /\ Len(visited) = 2
    /\ Len(files) = 1
    /\ pt_len = 2
    /\ hd[1] = hd[2]
    /\ Len(dgdf) = 2
    /\ Len(df2) = 2
    /\ Len(saved.table) > 0

----------------------------------------------------------------------------
(* C30 *)

====
